---- MODULE Spec2Model ----
(***************************************************************************)
(* The network message handler (message_handler.rs) and the simple sync    *)
(* protocol (sync/simple_sync.rs) of the beacon node.                      *)
(*                                                                         *)
(* One action per HandlerMessage variant handled by handle_message; each   *)
(* action carries out the whole handler, including the calls to            *)
(* generate_request_id, send_hello, send_rpc and validate_peer.            *)
(***************************************************************************)
EXTENDS Integers, Sequences, FiniteSets, TLC

VARIABLES
    chain,                  \* the BeaconChain read by SimpleSync (get_spec / get_state)
    known_peers,            \* SimpleSync.known_peers : PeerId -> PeerSyncInfo
    state,                  \* SimpleSync.state
    network_id,             \* SimpleSync.network_id
    latest_finalized_epoch, \* SimpleSync.latest_finalized_epoch
    latest_slot,            \* SimpleSync.latest_slot
    requests,               \* MessageHandler.requests : keys (PeerId, id)
    request_ids,            \* MessageHandler.request_ids : PeerId -> next id
    network_open,           \* the receiving end of network_send still exists
    network_send,           \* the sends on network_send made by the latest event
    responded,              \* the (PeerId, id) whose response arrived while pending
    last,                   \* the latest event handled and what its calls returned
    handler_recv,           \* the HandlerMessage values waiting in the handler channel
    handler_open,           \* some Sender of the handler channel still exists
    running                 \* the task spawned by MessageHandler::spawn is still looping

vars == <<chain, known_peers, state, network_id, latest_finalized_epoch,
          latest_slot, requests, request_ids, network_open, network_send,
          responded, last, handler_recv, handler_open, running>>

sync_vars == <<known_peers, state>>
local_vars == <<chain, network_id, latest_finalized_epoch, latest_slot>>
loop_vars == <<handler_recv, handler_open, running>>
handler_vars == <<chain, known_peers, state, network_id, latest_finalized_epoch,
                  latest_slot, requests, request_ids, network_open, network_send,
                  responded, last>>

----
\* Bounds of the model

\* cap on a peer's request-id counter, and largest id carried by an inbound RPC
MaxId == 2
\* cap on the number of HandlerMessage values waiting in the handler channel
MaxQueue == 2

PeerIds == {"p1", "p2"}
RpcIds == 0 .. MaxId
NetworkIds == {1, 2}
\* Hash256 values; 0 is Hash256::zero()
Hashes == {0, 1}
Epochs == {0, 1}
\* head slots of the local chain at construction (state.slot)
HeadSlots == {1, 201}
\* the BeaconChain states a node is constructed on
LocalChains ==
    [network_id : NetworkIds, finalized_root : {1}, finalized_epoch : {0},
     slot : HeadSlots]

----
\* Program constants and types

SLOT_IMPORT_TOLERANCE == 100


\* best_slot values a peer may announce, around the threshold of a node at slot S
BestSlots(S) ==
    {S, S + SLOT_IMPORT_TOLERANCE, S + SLOT_IMPORT_TOLERANCE + 1}

\* HelloMessage values received from peers by a node whose latest_slot is S
HelloMessage(S) ==
    [network_id : NetworkIds,
     latest_finalized_root : Hashes,
     latest_finalized_epoch : Epochs,
     best_root : Hashes,
     best_slot : BestSlots(S)]

\* the HelloMessage values the dispatcher is driven with: those of peers that
\* run generate_hello at genesis finality (roots zero, epoch 0), on either
\* network, with a head at the edge of the tolerance or at slot 500
PeerHello(S) ==
    [network_id : NetworkIds,
     latest_finalized_root : {0},
     latest_finalized_epoch : {0},
     best_root : {0},
     best_slot : {S + SLOT_IMPORT_TOLERANCE, 500}]

\* RPCRequest and RPCResponse bodies: a Hello, or any other variant
RPCRequest(S) ==
    {[kind |-> "Hello", hello |-> h] : h \in PeerHello(S)} \cup {[kind |-> "Other"]}

RPCResponse(S) ==
    {[kind |-> "Hello", hello |-> h] : h \in PeerHello(S)} \cup {[kind |-> "Other"]}

\* HashMap helpers: a map is a function whose DOMAIN is its key set
MapInsert(m, k, v) == [x \in (DOMAIN m) \cup {k} |-> IF x = k THEN v ELSE m[x]]

EmptyMap == [x \in {} |-> 0]

----
\* SimpleSync

\* SimpleSync::generate_hello
generate_hello ==
    [network_id |-> network_id,
     latest_finalized_root |-> chain.finalized_root,
     latest_finalized_epoch |-> chain.finalized_epoch,
     best_root |-> 0,
     best_slot |-> chain.slot - 1]

\* PeerSyncInfo with best_root taken from the finalized root
PeerSyncInfo_swapped(hello_message) ==
    [latest_finalized_root |-> hello_message.latest_finalized_root,
     latest_finalized_epoch |-> hello_message.latest_finalized_epoch,
     best_root |-> hello_message.latest_finalized_root,
     best_slot |-> hello_message.best_slot]

\* the PeerSyncInfo built by validate_peer from a HelloMessage
PeerSyncInfo(hello_message) ==
    [latest_finalized_root |-> hello_message.latest_finalized_root,
     latest_finalized_epoch |-> hello_message.latest_finalized_epoch,
     best_root |-> hello_message.best_root,
     best_slot |-> hello_message.best_slot]

\* validate_peer without the network id check
validate_peer_nocheck(peer_id, hello_message) ==
    [ret |-> TRUE,
     known_peers |-> MapInsert(known_peers, peer_id, PeerSyncInfo(hello_message)),
     state |-> IF /\ state = "Idle"
                  /\ hello_message.best_slot > latest_slot + SLOT_IMPORT_TOLERANCE
               THEN "Downloading"
               ELSE state]

\* validate_peer with >= in place of > in the sync trigger
validate_peer_ge(peer_id, hello_message) ==
    IF hello_message.network_id # network_id
    THEN [ret |-> FALSE, known_peers |-> known_peers, state |-> state]
    ELSE [ret |-> TRUE,
          known_peers |-> MapInsert(known_peers, peer_id, PeerSyncInfo(hello_message)),
          state |-> IF /\ state = "Idle"
                       /\ hello_message.best_slot >= latest_slot + SLOT_IMPORT_TOLERANCE
                    THEN "Downloading"
                    ELSE state]

\* validate_peer that recomputes the state from the latest handshake alone
validate_peer_recompute(peer_id, hello_message) ==
    IF hello_message.network_id # network_id
    THEN [ret |-> FALSE, known_peers |-> known_peers, state |-> state]
    ELSE [ret |-> TRUE,
          known_peers |-> MapInsert(known_peers, peer_id, PeerSyncInfo(hello_message)),
          state |-> IF hello_message.best_slot > latest_slot + SLOT_IMPORT_TOLERANCE
                    THEN "Downloading"
                    ELSE "Idle"]

\* validate_peer that stores the peer before it compares the network ids
validate_peer_insertfirst(peer_id, hello_message) ==
    IF hello_message.network_id # network_id
    THEN [ret |-> FALSE,
          known_peers |-> MapInsert(known_peers, peer_id, PeerSyncInfo(hello_message)),
          state |-> state]
    ELSE [ret |-> TRUE,
          known_peers |-> MapInsert(known_peers, peer_id, PeerSyncInfo(hello_message)),
          state |-> IF /\ state = "Idle"
                       /\ hello_message.best_slot > latest_slot + SLOT_IMPORT_TOLERANCE
                    THEN "Downloading"
                    ELSE state]

\* validate_peer with the commented-out finalized root test switched on
validate_peer_rootcheck(peer_id, hello_message) ==
    IF hello_message.network_id # network_id
    THEN [ret |-> FALSE, known_peers |-> known_peers, state |-> state]
    ELSE IF /\ hello_message.latest_finalized_epoch <= latest_finalized_epoch
            /\ hello_message.latest_finalized_root = chain.finalized_root
    THEN [ret |-> FALSE, known_peers |-> known_peers, state |-> state]
    ELSE [ret |-> TRUE,
          known_peers |-> MapInsert(known_peers, peer_id, PeerSyncInfo(hello_message)),
          state |-> IF /\ state = "Idle"
                       /\ hello_message.best_slot > latest_slot + SLOT_IMPORT_TOLERANCE
                    THEN "Downloading"
                    ELSE state]

\* validate_peer starting the download from every state but Downloading
validate_peer_notdownloading(peer_id, hello_message) ==
    IF hello_message.network_id # network_id
    THEN [ret |-> FALSE, known_peers |-> known_peers, state |-> state]
    ELSE [ret |-> TRUE,
          known_peers |-> MapInsert(known_peers, peer_id, PeerSyncInfo(hello_message)),
          state |-> IF /\ state # "Downloading"
                       /\ hello_message.best_slot > latest_slot + SLOT_IMPORT_TOLERANCE
                    THEN "Downloading"
                    ELSE state]

\* SimpleSync::validate_peer: the value returned and the fields it leaves behind
validate_peer(peer_id, hello_message) ==
    IF hello_message.network_id # network_id
    THEN [ret |-> FALSE, known_peers |-> known_peers, state |-> state]
    ELSE [ret |-> TRUE,
          known_peers |-> MapInsert(known_peers, peer_id, PeerSyncInfo(hello_message)),
          state |-> IF /\ state = "Idle"
                       /\ hello_message.best_slot > latest_slot + SLOT_IMPORT_TOLERANCE
                    THEN "Downloading"
                    ELSE state]

----
\* MessageHandler

\* generate_request_id without the increment of the counter
generate_request_id_noinc(peer_id) ==
    LET id == IF peer_id \in DOMAIN request_ids THEN request_ids[peer_id] ELSE 0
    IN [id |-> id,
        request_ids |-> MapInsert(request_ids, peer_id, id),
        requests |-> requests \cup {<<peer_id, id>>}]

\* generate_request_id registering the incremented counter instead of the id
generate_request_id_postinc(peer_id) ==
    LET id == IF peer_id \in DOMAIN request_ids THEN request_ids[peer_id] ELSE 0
    IN [id |-> id,
        request_ids |-> MapInsert(request_ids, peer_id, id + 1),
        requests |-> requests \cup {<<peer_id, id + 1>>}]

\* MessageHandler::generate_request_id: the id returned and the maps afterwards
generate_request_id(peer_id) ==
    LET id == IF peer_id \in DOMAIN request_ids THEN request_ids[peer_id] ELSE 0
    IN [id |-> id,
        request_ids |-> MapInsert(request_ids, peer_id, id + 1),
        requests |-> requests \cup {<<peer_id, id>>}]

\* the lookup of handle_rpc_response without its is_none() test
requests_remove_unchecked(peer_id, id) ==
    [found |-> TRUE,
     requests |-> requests \ {<<peer_id, id>>}]

\* the lookup of handle_rpc_response done with get instead of remove
requests_remove_get(peer_id, id) ==
    [found |-> <<peer_id, id>> \in requests,
     requests |-> requests]

\* self.requests.remove(&(peer_id, id)) in handle_rpc_response
requests_remove(peer_id, id) ==
    [found |-> <<peer_id, id>> \in requests,
     requests |-> requests \ {<<peer_id, id>>}]

\* MessageHandler::send_rpc: one send on network_send; a failed send is only logged
send_rpc(peer_id, rpc_event) ==
    <<[peer |-> peer_id, event |-> rpc_event, sent |-> network_open]>>

\* send_hello with the request and response branches exchanged
send_hello_flipped(peer_id, id, is_request) ==
    send_rpc(peer_id,
             [kind |-> IF is_request THEN "Response" ELSE "Request",
              id |-> id,
              hello |-> generate_hello])

\* MessageHandler::send_hello
send_hello(peer_id, id, is_request) ==
    send_rpc(peer_id,
             [kind |-> IF is_request THEN "Request" ELSE "Response",
              id |-> id,
              hello |-> generate_hello])

\* MessageHandler::validate_hello
validate_hello(peer_id, message) ==
    LET v == validate_peer(peer_id, message)
    IN /\ known_peers' = v.known_peers
       /\ state' = v.state

\* a returned bool as recorded in last ("none" when the call was not made)
Ret(b) == IF b THEN "true" ELSE "false"

\* what the latest event was: its kind, peer and id, whether its body was a
\* Hello, the calls the handler made in order, and what they returned
Last(kind, peer_id, id, hello, calls, resolved, valid) ==
    [kind |-> kind, peer |-> peer_id, id |-> id, hello |-> hello,
     calls |-> calls, resolved |-> resolved, valid |-> valid,
     state_before |-> state,
     known_before |-> peer_id \in DOMAIN known_peers]

NoLast ==
    [kind |-> "None", peer |-> "none", id |-> 0, hello |-> FALSE,
     calls |-> <<>>, resolved |-> "none", valid |-> "none",
     state_before |-> "Idle", known_before |-> FALSE]

\* SimpleSync::new and the fields of MessageHandler set by MessageHandler::spawn
New(beacon_chain) ==
    /\ chain = beacon_chain
    /\ known_peers = EmptyMap
    /\ state = "Idle"
    /\ network_id = beacon_chain.network_id
    /\ latest_finalized_epoch = beacon_chain.finalized_epoch
    /\ latest_slot = beacon_chain.slot - 1
    /\ requests = {}
    /\ request_ids = EmptyMap
    /\ network_open = TRUE
    /\ network_send = <<>>
    /\ responded = {}
    /\ last = NoLast
    /\ handler_recv = <<>>
    /\ handler_open = TRUE
    /\ running = TRUE

\* PeerDialed giving the request id back when the send fails
PeerDialed_abort(peer_id) ==
    LET g == generate_request_id(peer_id)
    IN /\ g.id < MaxId
       /\ request_ids' = IF network_open THEN g.request_ids ELSE request_ids
       /\ requests' = IF network_open THEN g.requests ELSE requests
       /\ network_send' = send_hello(peer_id, g.id, TRUE)
       /\ last' = Last("PeerDialed", peer_id, g.id, FALSE,
                       <<"generate_request_id", "send_hello">>, "none", "none")
       /\ UNCHANGED <<sync_vars, local_vars, network_open, responded>>

\* handle_message, HandlerMessage::PeerDialed(peer_id)
PeerDialed(peer_id) ==
    LET g == generate_request_id(peer_id)
    IN /\ g.id < MaxId
       /\ request_ids' = g.request_ids
       /\ requests' = g.requests
       /\ network_send' = send_hello(peer_id, g.id, TRUE)
       /\ last' = Last("PeerDialed", peer_id, g.id, FALSE,
                       <<"generate_request_id", "send_hello">>, "none", "none")
       /\ UNCHANGED <<sync_vars, local_vars, network_open, responded>>

\* PeerDisconnected forgetting the peer's counter along with its requests
PeerDisconnected_reset(peer_id) ==
    /\ request_ids' = [q \in (DOMAIN request_ids) \ {peer_id} |-> request_ids[q]]
    /\ requests' = {r \in requests : r[1] # peer_id}
    /\ network_send' = <<>>
    /\ last' = Last("PeerDisconnected", peer_id, 0, FALSE, <<>>, "none", "none")
    /\ UNCHANGED <<sync_vars, local_vars, network_open, responded>>

\* handle_message, HandlerMessage::PeerDisconnected(peer_id): the `_ => {}` arm
PeerDisconnected(peer_id) ==
    /\ network_send' = <<>>
    /\ last' = Last("PeerDisconnected", peer_id, 0, FALSE, <<>>, "none", "none")
    /\ UNCHANGED <<sync_vars, local_vars, requests, request_ids, network_open,
                   responded>>

\* handle_message, HandlerMessage::BlockImported(): the `_ => {}` arm
BlockImported ==
    /\ network_send' = <<>>
    /\ last' = Last("BlockImported", "none", 0, FALSE, <<>>, "none", "none")
    /\ UNCHANGED <<sync_vars, local_vars, requests, request_ids, network_open,
                   responded>>

\* handle_hello_request answering with the peer's own next request id
handle_hello_request_ownid(peer_id, id, hello_message) ==
    /\ network_send' =
          send_hello(peer_id,
                     IF peer_id \in DOMAIN request_ids THEN request_ids[peer_id] ELSE 0,
                     FALSE)
    /\ validate_hello(peer_id, hello_message)
    /\ last' = Last("RpcRequest", peer_id, id, TRUE,
                    <<"send_hello", "validate_peer">>, "none",
                    Ret(validate_peer(peer_id, hello_message).ret))

\* handle_hello_request that validates first and answers accepted peers only
handle_hello_request_replyifvalid(peer_id, id, hello_message) ==
    /\ network_send' = IF validate_peer(peer_id, hello_message).ret
                       THEN send_hello(peer_id, id, FALSE)
                       ELSE <<>>
    /\ validate_hello(peer_id, hello_message)
    /\ last' = Last("RpcRequest", peer_id, id, TRUE,
                    <<"validate_peer", "send_hello">>, "none",
                    Ret(validate_peer(peer_id, hello_message).ret))

\* MessageHandler::handle_hello_request
handle_hello_request(peer_id, id, hello_message) ==
    /\ network_send' = send_hello(peer_id, id, FALSE)
    /\ validate_hello(peer_id, hello_message)
    /\ last' = Last("RpcRequest", peer_id, id, TRUE,
                    <<"send_hello", "validate_peer">>, "none",
                    Ret(validate_peer(peer_id, hello_message).ret))

\* handle_rpc_request answering every request with a HELLO response
RpcRequest_replyall(peer_id, id, request) ==
    /\ IF request.kind = "Hello"
       THEN handle_hello_request(peer_id, id, request.hello)
       ELSE /\ network_send' = send_hello(peer_id, id, FALSE)
            /\ last' = Last("RpcRequest", peer_id, id, FALSE, <<>>, "none", "none")
            /\ UNCHANGED sync_vars
    /\ UNCHANGED <<local_vars, requests, request_ids, network_open, responded>>

\* handle_message, HandlerMessage::RPC with RPCEvent::Request: handle_rpc_request
RpcRequest(peer_id, id, request) ==
    /\ IF request.kind = "Hello"
       THEN handle_hello_request(peer_id, id, request.hello)
       ELSE /\ network_send' = <<>>
            /\ last' = Last("RpcRequest", peer_id, id, FALSE, <<>>, "none", "none")
            /\ UNCHANGED sync_vars
    /\ UNCHANGED <<local_vars, requests, request_ids, network_open, responded>>

\* handle_message, HandlerMessage::RPC with RPCEvent::Response: handle_rpc_response
RpcResponse(peer_id, id, response) ==
    LET r == requests_remove(peer_id, id)
    IN /\ requests' = r.requests
       /\ network_send' = <<>>
       /\ IF ~r.found
          THEN /\ last' = Last("RpcResponse", peer_id, id, response.kind = "Hello",
                               <<>>, Ret(FALSE), "none")
               /\ UNCHANGED <<sync_vars, responded>>
          ELSE /\ responded' = responded \cup {<<peer_id, id>>}
               /\ IF response.kind = "Hello"
                  THEN /\ validate_hello(peer_id, response.hello)
                       /\ last' = Last("RpcResponse", peer_id, id, TRUE,
                                       <<"validate_peer">>, Ret(TRUE),
                                       Ret(validate_peer(peer_id, response.hello).ret))
                  ELSE /\ last' = Last("RpcResponse", peer_id, id, FALSE,
                                       <<>>, Ret(TRUE), "none")
                       /\ UNCHANGED sync_vars
       /\ UNCHANGED <<local_vars, request_ids, network_open>>

----
\* The dispatcher: a node on network 1 whose head slot is 201, driven by any
\* sequence of HandlerMessage values

Init == \E c \in LocalChains : c.network_id = 1 /\ c.slot = 201 /\ New(c)

Next ==
    \/ \E peer_id \in PeerIds : PeerDialed(peer_id) /\ UNCHANGED loop_vars
    \/ \E peer_id \in PeerIds : PeerDisconnected(peer_id) /\ UNCHANGED loop_vars
    \/ BlockImported /\ UNCHANGED loop_vars
    \/ \E peer_id \in PeerIds, id \in RpcIds, request \in RPCRequest(latest_slot) :
          RpcRequest(peer_id, id, request) /\ UNCHANGED loop_vars
    \/ \E peer_id \in PeerIds, id \in RpcIds, response \in RPCResponse(latest_slot) :
          RpcResponse(peer_id, id, response) /\ UNCHANGED loop_vars

Spec == Init /\ [][Next]_vars

----
\* validate_peer on its own: nodes on any of the LocalChains, receiving Hello
\* requests with every combination of HelloMessage fields

SyncInit == \E c \in LocalChains : New(c)

SyncNext ==
    \E peer_id \in PeerIds, h \in HelloMessage(latest_slot) :
        /\ RpcRequest(peer_id, 0, [kind |-> "Hello", hello |-> h])
        /\ UNCHANGED loop_vars

SyncSpec == SyncInit /\ [][SyncNext]_vars

----
\* validate_peer as a function of the SimpleSync it is called on: as SyncSpec,
\* with the SimpleSync in any of the SyncState values

\* enum SyncState
SyncState == {"Idle", "Downloading", "Stopped"}

AnyStateInit ==
    \E c \in LocalChains, sync_state \in SyncState :
        /\ chain = c
        /\ known_peers = EmptyMap
        /\ state = sync_state
        /\ network_id = c.network_id
        /\ latest_finalized_epoch = c.finalized_epoch
        /\ latest_slot = c.slot - 1
        /\ requests = {}
        /\ request_ids = EmptyMap
        /\ network_open = TRUE
        /\ network_send = <<>>
        /\ responded = {}
        /\ last = [NoLast EXCEPT !.state_before = sync_state]
        /\ handler_recv = <<>>
        /\ handler_open = TRUE
        /\ running = TRUE

AnyStateSpec == AnyStateInit /\ [][SyncNext]_vars

----
\* The loop of MessageHandler::spawn: producers send HandlerMessage values on
\* the handler channel, the task receives them one by one and handles each,
\* until every Sender is gone and the channel is empty; the network service
\* may drop its end of network_send at any time

\* the HandlerMessage values sent to the handler, all about peer p1: a dial, a
\* disconnect, a block import, a Hello request on the wrong network, a Hello
\* request and a Hello response on the node's network, and another request
LoopMessages ==
    LET mismatch == [network_id |-> 2, latest_finalized_root |-> 0,
                     latest_finalized_epoch |-> 0, best_root |-> 0, best_slot |-> 500]
        match == [mismatch EXCEPT !.network_id = 1]
    IN {[kind |-> "PeerDialed", peer |-> "p1"],
        [kind |-> "PeerDisconnected", peer |-> "p1"],
        [kind |-> "BlockImported"],
        [kind |-> "RPC", peer |-> "p1",
         event |-> [kind |-> "Request", id |-> 0,
                    body |-> [kind |-> "Hello", hello |-> mismatch]]],
        [kind |-> "RPC", peer |-> "p1",
         event |-> [kind |-> "Request", id |-> 1,
                    body |-> [kind |-> "Hello", hello |-> match]]],
        [kind |-> "RPC", peer |-> "p1",
         event |-> [kind |-> "Response", id |-> 0,
                    body |-> [kind |-> "Hello", hello |-> match]]],
        [kind |-> "RPC", peer |-> "p1",
         event |-> [kind |-> "Request", id |-> 0, body |-> [kind |-> "Other"]]]}

\* MessageHandler::handle_rpc_message
handle_rpc_message(peer_id, rpc_message) ==
    IF rpc_message.kind = "Request"
    THEN RpcRequest(peer_id, rpc_message.id, rpc_message.body)
    ELSE RpcResponse(peer_id, rpc_message.id, rpc_message.body)

\* MessageHandler::handle_message
handle_message(message) ==
    CASE message.kind = "PeerDialed" -> PeerDialed(message.peer)
      [] message.kind = "RPC" -> handle_rpc_message(message.peer, message.event)
      [] message.kind = "PeerDisconnected" -> PeerDisconnected(message.peer)
      [] message.kind = "BlockImported" -> BlockImported

\* the PeerDialed(peer_id) messages waiting in the channel
DialsWaiting(peer_id) ==
    Cardinality({i \in 1 .. Len(handler_recv) :
                    /\ handler_recv[i].kind = "PeerDialed"
                    /\ handler_recv[i].peer = peer_id})

\* a producer sends a message on the Sender returned by spawn
Send(message) ==
    /\ handler_open
    /\ Len(handler_recv) < MaxQueue
    /\ message.kind = "PeerDialed" =>
          DialsWaiting(message.peer)
             + (IF message.peer \in DOMAIN request_ids
                THEN request_ids[message.peer] ELSE 0) < MaxId
    /\ handler_recv' = Append(handler_recv, message)
    /\ UNCHANGED <<handler_vars, handler_open, running>>

\* the last Sender of the handler channel is dropped
DropSenders ==
    /\ handler_open
    /\ handler_open' = FALSE
    /\ UNCHANGED <<handler_vars, handler_recv, running>>

\* the network service drops the Receiver of network_send
NetworkClosed ==
    /\ network_open
    /\ network_open' = FALSE
    /\ UNCHANGED <<sync_vars, local_vars, requests, request_ids, network_send,
                   responded, last, loop_vars>>

\* one turn of the loop: handler_recv.recv() returns a message, handle_message
Recv ==
    /\ running
    /\ handler_recv # <<>>
    /\ handler_recv' = Tail(handler_recv)
    /\ handle_message(Head(handler_recv))
    /\ UNCHANGED <<handler_open, running>>

\* RecvErr that does not wait for the channel to be empty
RecvErr_early ==
    /\ running
    /\ ~handler_open
    /\ running' = FALSE
    /\ UNCHANGED <<handler_vars, handler_recv, handler_open>>

\* the last turn of the loop: handler_recv.recv() returns Err, `?` ends the task
RecvErr ==
    /\ running
    /\ handler_recv = <<>>
    /\ ~handler_open
    /\ running' = FALSE
    /\ UNCHANGED <<handler_vars, handler_recv, handler_open>>

LoopNext ==
    \/ \E message \in LoopMessages : Send(message)
    \/ DropSenders
    \/ NetworkClosed
    \/ Recv
    \/ RecvErr

LoopSpec ==
    /\ Init
    /\ [][LoopNext]_vars
    /\ WF_vars(Recv)
    /\ WF_vars(RecvErr)

----
\* Properties

\* the HELLO sent by send_hello to a peer, as it appears on network_send
HelloSend(peer_id, kind, id) ==
    [peer |-> peer_id,
     event |-> [kind |-> kind, id |-> id, hello |-> generate_hello],
     sent |-> network_open]

\* the counters and entries of every peer but peer_id are the same after the step
OthersUntouched(peer_id) ==
    \A q \in PeerIds \ {peer_id} :
        /\ q \in DOMAIN request_ids' <=> q \in DOMAIN request_ids
        /\ q \in DOMAIN request_ids => request_ids'[q] = request_ids[q]
        /\ \A id \in RpcIds : <<q, id>> \in requests' <=> <<q, id>> \in requests

\* C1: an allocation for a peer without a counter returns 0, an allocation for
\* a peer with a counter returns the successor of the id returned before (the
\* counter is one above the id last returned, and only an allocation moves
\* it); each allocation adds the one entry (peer, id) and touches no other peer.
C1_SequentialIds ==
    [][IF last'.kind = "PeerDialed"
       THEN LET p == last'.peer
                id == last'.id
            IN /\ p \notin DOMAIN request_ids => id = 0
               /\ p \in DOMAIN request_ids => id = request_ids[p]
               /\ request_ids'[p] = id + 1
               /\ <<p, id>> \notin requests
               /\ requests' = requests \cup {<<p, id>>}
               /\ OthersUntouched(p)
       ELSE request_ids' = request_ids]_vars

C1_Witness ==
    /\ last.kind = "PeerDialed"
    /\ last.id = 1
    /\ <<last.peer, 0>> \in requests
    /\ \E q \in PeerIds \ {last.peer} : <<q, 0>> \in requests

\* the registry of every peer but peer_id is the same after the step
OtherPeersKept(peer_id) ==
    \A q \in PeerIds \ {peer_id} :
        /\ q \in DOMAIN known_peers' <=> q \in DOMAIN known_peers
        /\ q \in DOMAIN known_peers => known_peers'[q] = known_peers[q]

\* C2: in every reachable state, validate_peer on any handshake whose
\* network_id differs from the local one returns false and leaves the registry
\* and the SyncState as they are; and a step in which validate_peer returned
\* false changes neither.
C2_MismatchRejected ==
    /\ [](\A p \in PeerIds, h \in HelloMessage(latest_slot) :
            h.network_id # network_id =>
                LET v == validate_peer(p, h)
                IN /\ v.ret = FALSE
                   /\ v.known_peers = known_peers
                   /\ v.state = state)
    /\ [][last'.valid = "false" => UNCHANGED <<known_peers, state>>]_vars

C2_Witness ==
    /\ last.kind = "RpcRequest"
    /\ last.valid = "false"
    /\ last.known_before
    /\ last.peer \in DOMAIN known_peers

\* C3: in every reachable state, validate_peer on any handshake whose
\* network_id equals the local one returns true and leaves for that peer an
\* entry made of exactly the four submitted fields, whatever entry was there
\* before, the entries of the other peers being kept; and a step in which
\* validate_peer returned true leaves an entry for the peer and keeps the others.
C3_MatchStored ==
    /\ [](\A p \in PeerIds, h \in HelloMessage(latest_slot) :
            h.network_id = network_id =>
                LET v == validate_peer(p, h)
                IN /\ v.ret = TRUE
                   /\ DOMAIN v.known_peers = DOMAIN known_peers \cup {p}
                   /\ v.known_peers[p] =
                         [latest_finalized_root |-> h.latest_finalized_root,
                          latest_finalized_epoch |-> h.latest_finalized_epoch,
                          best_root |-> h.best_root,
                          best_slot |-> h.best_slot]
                   /\ \A q \in DOMAIN known_peers \ {p} :
                         v.known_peers[q] = known_peers[q])
    /\ [][last'.valid = "true" =>
            /\ last'.peer \in DOMAIN known_peers'
            /\ OtherPeersKept(last'.peer)]_vars

C3_Witness ==
    /\ last.kind = "RpcRequest"
    /\ last.valid = "true"
    /\ last.known_before
    /\ known_peers[last.peer].best_root # known_peers[last.peer].latest_finalized_root
    /\ \E q \in DOMAIN known_peers \ {last.peer} :
          known_peers[q] # known_peers[last.peer]

\* C4: the tolerance is 100; from Idle, an accepted handshake with best_slot =
\* latest_slot + 101 gives Downloading and one with best_slot <= latest_slot +
\* 100 gives Idle; and a step from Idle in which validate_peer returned true
\* ends in Downloading exactly when the stored best_slot > latest_slot + 100.
C4_StrictThreshold ==
    /\ [](/\ SLOT_IMPORT_TOLERANCE = 100
          /\ state = "Idle" =>
                \A p \in PeerIds, h \in HelloMessage(latest_slot) :
                    h.network_id = network_id =>
                        LET v == validate_peer(p, h)
                        IN /\ h.best_slot = latest_slot + 101 => v.state = "Downloading"
                           /\ h.best_slot <= latest_slot + 100 => v.state = "Idle")
    /\ [][last'.valid = "true" /\ state = "Idle" =>
            IF known_peers'[last'.peer].best_slot > latest_slot + 100
            THEN state' = "Downloading"
            ELSE state' = "Idle"]_vars

C4_Witness ==
    /\ last.valid = "true"
    /\ last.state_before = "Idle"
    /\ state = "Downloading"
    /\ known_peers[last.peer].best_slot = latest_slot + 101
    /\ \E q \in DOMAIN known_peers \ {last.peer} :
          known_peers[q].best_slot = latest_slot + 100

\* C5: a response step whose (peer, id) is not pending reports resolve =
\* false, does not run validate_peer, sends nothing, and leaves the pending
\* entries, the counters, the registry and the SyncState as they are.
C5_UnsolicitedDiscarded ==
    [][last'.kind = "RpcResponse" /\ <<last'.peer, last'.id>> \notin requests =>
          /\ last'.resolved = "false"
          /\ last'.valid = "none"
          /\ last'.calls = <<>>
          /\ network_send' = <<>>
          /\ UNCHANGED <<requests, request_ids, known_peers, state>>]_vars

\* a Hello response to an id already resolved, while the other peer has the
\* same id pending
C5_Witness ==
    /\ last.kind = "RpcResponse"
    /\ last.hello
    /\ last.resolved = "false"
    /\ <<last.peer, last.id>> \in responded
    /\ \E q \in PeerIds \ {last.peer} : <<q, last.id>> \in requests

\* a request with this (peer, id) has been sent
Issued(peer_id, id) ==
    peer_id \in DOMAIN request_ids /\ id < request_ids[peer_id]

\* C6: an entry (peer, id) exists if and only if the request was sent, its
\* response has not arrived, and the peer has not just disconnected.
C6_PendingIffUnresolved ==
    \A p \in PeerIds, id \in RpcIds :
        <<p, id>> \in requests <=>
            /\ Issued(p, id)
            /\ <<p, id>> \notin responded
            /\ ~(last.kind = "PeerDisconnected" /\ last.peer = p)

\* C7: in the state left by PeerDisconnected(peer) the registry has no entry
\* for the peer and no request of the peer is pending.
C7_DisconnectCleansUp ==
    last.kind = "PeerDisconnected" =>
        /\ last.peer \notin DOMAIN known_peers
        /\ \A id \in RpcIds : <<last.peer, id>> \notin requests

\* C8: the SyncState is Idle initially, and every step that changes it takes
\* it from Idle to Downloading.
C8_OnlyIdleToDownloading ==
    /\ state = "Idle"
    /\ [][state' # state => state = "Idle" /\ state' = "Downloading"]_vars

\* an accepted handshake of a peer inside the tolerance, received while Downloading
C8_Witness ==
    /\ state = "Downloading"
    /\ last.state_before = "Downloading"
    /\ last.valid = "true"
    /\ known_peers[last.peer].best_slot <= latest_slot + SLOT_IMPORT_TOLERANCE

\* C9: a Hello request step with id r sends exactly one message, a Hello
\* response to the requesting peer with id r, calls send_hello and then
\* validate_peer, and leaves the counters and the pending entries as they are.
C9_ReplySameId ==
    [][last'.kind = "RpcRequest" /\ last'.hello =>
          /\ network_send' = <<HelloSend(last'.peer, "Response", last'.id)>>
          /\ last'.calls = <<"send_hello", "validate_peer">>
          /\ last'.valid \in {"true", "false"}
          /\ last'.valid = "true" => last'.peer \in DOMAIN known_peers'
          /\ UNCHANGED <<requests, request_ids>>]_vars

\* a Hello request with id 1 from a peer to which no request was ever sent
C9_Witness ==
    /\ last.kind = "RpcRequest"
    /\ last.hello
    /\ last.id = 1
    /\ last.peer \notin DOMAIN request_ids
    /\ last.valid = "true"
    /\ network_send[1].event.id = 1

\* the first event of a dispatcher is PeerDialed(peer_id)
FirstDial(peer_id) ==
    /\ last.kind = "None"
    /\ PeerDialed(peer_id)

\* the dispatcher has handled PeerDialed(peer_id) and nothing else, and the
\* next event is a Hello response of peer_id to id 0 with network_id 1 and
\* best_slot 500
ReplyToFirstDial(peer_id) ==
    /\ last.kind = "PeerDialed"
    /\ last.peer = peer_id
    /\ request_ids = [q \in {peer_id} |-> 1]
    /\ responded = {}
    /\ known_peers = EmptyMap
    /\ \E h \in PeerHello(latest_slot) :
          /\ h.network_id = 1
          /\ h.best_slot = 500
          /\ RpcResponse(peer_id, 0, [kind |-> "Hello", hello |-> h])

\* C10: with network_id 1 and latest_slot 200, the first PeerDialed(peer)
\* sends a Hello request with id 0 and leaves (peer, 0) pending; a Hello
\* response of that peer to id 0 with network_id 1 and best_slot 500 is then
\* resolved and accepted, takes the SyncState to Downloading and removes
\* (peer, 0).
C10_EndToEnd ==
    [][\A p \in PeerIds :
          /\ FirstDial(p) =>
                /\ network_id = 1
                /\ latest_slot = 200
                /\ last'.id = 0
                /\ network_send' = <<HelloSend(p, "Request", 0)>>
                /\ <<p, 0>> \in requests'
          /\ ReplyToFirstDial(p) =>
                /\ <<p, 0>> \in requests
                /\ state = "Idle"
                /\ last'.resolved = "true"
                /\ last'.valid = "true"
                /\ state' = "Downloading"
                /\ <<p, 0>> \notin requests']_vars

C10_Witness ==
    /\ last.kind = "RpcResponse"
    /\ last.id = 0
    /\ last.resolved = "true"
    /\ last.valid = "true"
    /\ last.state_before = "Idle"
    /\ state = "Downloading"
    /\ known_peers = [q \in {last.peer} |-> known_peers[last.peer]]
    /\ known_peers[last.peer].best_slot = 500
    /\ request_ids = [q \in {last.peer} |-> 1]
    /\ requests = {}
    /\ network_id = 1
    /\ latest_slot = 200

\* C11: a counter, once present, is never removed or decreased, by any event;
\* and the id returned by an allocation is neither pending nor already
\* answered for that peer, so no (peer, id) is issued twice.
C11_IdsNeverReused ==
    [][/\ \A p \in DOMAIN request_ids :
             /\ p \in DOMAIN request_ids'
             /\ request_ids'[p] >= request_ids[p]
       /\ last'.kind = "PeerDialed" =>
             /\ <<last'.peer, last'.id>> \notin requests
             /\ <<last'.peer, last'.id>> \notin responded
             /\ last'.peer \in DOMAIN request_ids => last'.id >= request_ids[last'.peer]
       /\ last.kind = "PeerDisconnected" /\ last'.kind = "PeerDialed"
             /\ last'.peer = last.peer /\ last.peer \in DOMAIN request_ids =>
             last'.id = request_ids[last.peer]]_vars

\* a dial of a peer whose request 0 was answered
C11_Witness ==
    /\ last.kind = "PeerDialed"
    /\ last.id = 1
    /\ <<last.peer, 0>> \in responded
    /\ <<last.peer, 0>> \notin requests

\* C12: the registry is empty initially, and a peer enters it only in a step
\* in which validate_peer, run for that peer on a Hello request or on a Hello
\* response found pending, returned true; no other step changes the registry.
C12_KnownOnlyIfValidated ==
    /\ known_peers = EmptyMap
    /\ [][known_peers' # known_peers =>
            /\ last'.valid = "true"
            /\ last'.hello
            /\ \/ last'.kind = "RpcRequest"
               \/ last'.kind = "RpcResponse" /\ last'.resolved = "true"
            /\ DOMAIN known_peers' = DOMAIN known_peers \cup {last'.peer}
            /\ OtherPeersKept(last'.peer)]_vars

\* a dialed peer whose Hello response was discarded has no entry, another has
C12_Witness ==
    /\ last.kind = "RpcResponse"
    /\ last.hello
    /\ last.resolved = "false"
    /\ last.peer \in DOMAIN request_ids
    /\ last.peer \notin DOMAIN known_peers
    /\ known_peers # EmptyMap

\* C17: a PeerDialed step sends exactly one message, a Hello request to that
\* peer with the id it allocated; the id was neither pending nor answered
\* before and is pending after; the registry and the SyncState are unchanged.
C17_DialSendsRequest ==
    [][last'.kind = "PeerDialed" =>
          /\ network_send' = <<HelloSend(last'.peer, "Request", last'.id)>>
          /\ last'.calls = <<"generate_request_id", "send_hello">>
          /\ <<last'.peer, last'.id>> \notin requests \cup responded
          /\ <<last'.peer, last'.id>> \in requests'
          /\ UNCHANGED <<known_peers, state>>]_vars

\* the second dial of a peer that is in the registry, while Downloading
C17_Witness ==
    /\ last.kind = "PeerDialed"
    /\ last.id = 1
    /\ network_send[1].event.kind = "Request"
    /\ network_send[1].event.id = 1
    /\ last.peer \in DOMAIN known_peers
    /\ state = "Downloading"

\* C18: a BlockImported step, and an RPC request step whose body is not a
\* Hello, change no counter, pending entry, registry entry or SyncState and
\* send nothing.
C18_UnhandledNoEffect ==
    [][\/ last'.kind = "BlockImported"
       \/ last'.kind = "RpcRequest" /\ ~last'.hello
       =>
          /\ network_send' = <<>>
          /\ last'.calls = <<>>
          /\ UNCHANGED <<request_ids, requests, known_peers, state>>]_vars

\* a request other than Hello from a peer with a pending request and an entry
C18_Witness ==
    /\ last.kind = "RpcRequest"
    /\ ~last.hello
    /\ <<last.peer, last.id>> \in requests
    /\ last.peer \in DOMAIN known_peers
    /\ network_send = <<>>

\* the pending entries of a peer
PendingOf(peer_id) == {r \in requests : r[1] = peer_id}

\* C20: every pending (peer, id) has a counter for the peer and id below it;
\* a peer without a counter has no pending entry, and a peer has no more
\* pending entries than its counter.
C20_PendingBelowCounter ==
    /\ \A r \in requests :
          /\ r[1] \in DOMAIN request_ids
          /\ r[2] < request_ids[r[1]]
    /\ \A p \in PeerIds :
          IF p \in DOMAIN request_ids
          THEN Cardinality(PendingOf(p)) <= request_ids[p]
          ELSE PendingOf(p) = {}

\* one peer has its latest id pending and an earlier one answered, the other
\* has no counter
C20_Witness ==
    \E p \in DOMAIN request_ids :
        /\ request_ids[p] = 2
        /\ PendingOf(p) = {<<p, 1>>}
        /\ \E q \in PeerIds : q \notin DOMAIN request_ids

\* the HelloMessage generated by a node that has the network id, finalized
\* epoch and head slot of this node, and finalized root r
HelloOfTwin(r) == [generate_hello EXCEPT !.latest_finalized_root = r]

C19_NonIdleStateKept ==
    /\ [](state # "Idle" =>
            \A p \in PeerIds, h \in HelloMessage(latest_slot) :
                LET v == validate_peer(p, h)
                IN /\ v.state = state
                   /\ h.network_id = network_id =>
                         /\ v.ret = TRUE
                         /\ v.known_peers[p] =
                               [latest_finalized_root |-> h.latest_finalized_root,
                                latest_finalized_epoch |-> h.latest_finalized_epoch,
                                best_root |-> h.best_root,
                                best_slot |-> h.best_slot])
    /\ [][state # "Idle" => state' = state]_vars

\* a Stopped node has accepted the Hello of a peer beyond the tolerance
C19_Witness ==
    /\ state = "Stopped"
    /\ last.state_before = "Stopped"
    /\ last.valid = "true"
    /\ known_peers[last.peer].best_slot = latest_slot + SLOT_IMPORT_TOLERANCE + 1

\* the step is a turn of the loop that handled the head of the channel
Handled == handler_recv # <<>> /\ handler_recv' = Tail(handler_recv)

\* the send made by the step failed
SendFailed == network_send' # <<>> /\ ~network_send'[1].sent

\* C13: a turn of the loop whose send fails leaves the task running; if it
\* handled PeerDialed, the id read from the counter is returned and recorded
\* and the counter incremented; if it handled a Hello request, validate_peer
\* ran, and an accepted peer is in the registry with the SyncState moved as
\* C4 says. In every state with the network channel closed, a running task
\* with a waiting message can take its next turn.
C13_FailedSendAbsorbed ==
    /\ [][Handled /\ SendFailed =>
            LET p == last'.peer
                id == last'.id
            IN /\ running'
               /\ last'.kind \in {"PeerDialed", "RpcRequest"}
               /\ last'.kind = "PeerDialed" =>
                     /\ id = IF p \in DOMAIN request_ids THEN request_ids[p] ELSE 0
                     /\ p \in DOMAIN request_ids'
                     /\ request_ids'[p] = id + 1
                     /\ requests' = requests \cup {<<p, id>>}
                     /\ UNCHANGED <<known_peers, state>>
               /\ last'.kind = "RpcRequest" =>
                     /\ last'.calls = <<"send_hello", "validate_peer">>
                     /\ last'.valid \in {"true", "false"}
                     /\ last'.valid = "false" => UNCHANGED <<known_peers, state>>
                     /\ last'.valid = "true" =>
                           /\ p \in DOMAIN known_peers'
                           /\ state' = IF /\ state = "Idle"
                                          /\ known_peers'[p].best_slot
                                                > latest_slot + SLOT_IMPORT_TOLERANCE
                                       THEN "Downloading"
                                       ELSE state
                     /\ UNCHANGED <<requests, request_ids>>]_vars
    /\ [](~network_open /\ running /\ handler_recv # <<>> => ENABLED Recv)

\* after a failed send of the Hello request of a dial, the task is running and
\* has handled a later message
C13_Witness ==
    /\ ~network_open
    /\ running
    /\ network_send # <<>>
    /\ ~network_send[1].sent
    /\ last.kind = "RpcRequest"
    /\ last.valid = "true"
    /\ <<"p1", 0>> \in requests
    /\ handler_recv # <<>>

\* the kind, peer and id that last shows for a HandlerMessage
ShownAs(message) ==
    /\ last'.kind = (IF message.kind = "RPC"
                     THEN (IF message.event.kind = "Request"
                           THEN "RpcRequest" ELSE "RpcResponse")
                     ELSE message.kind)
    /\ message.kind # "BlockImported" => last'.peer = message.peer
    /\ message.kind = "RPC" => last'.id = message.event.id

\* C14: the channel changes only by a send at its tail or by the running
\* task taking its head, and the dispatcher state changes only in a step that
\* takes the head and handles that very message; the task ends only with the
\* channel empty and every Sender gone, changing nothing else; a running task
\* with a waiting message can always take its next turn; and once every
\* Sender is gone the task eventually ends.
C14_LoopRunsToClose ==
    /\ [][/\ handler_recv' # handler_recv =>
                \/ /\ \E m \in LoopMessages : handler_recv' = Append(handler_recv, m)
                   /\ UNCHANGED handler_vars
                \/ /\ Handled
                   /\ running
                   /\ ShownAs(Head(handler_recv))
          /\ <<known_peers, state, requests, request_ids, network_send, last>>'
                # <<known_peers, state, requests, request_ids, network_send, last>>
                => Handled /\ running /\ running'
          /\ running' # running =>
                /\ running
                /\ handler_recv = <<>>
                /\ ~handler_open
                /\ UNCHANGED <<handler_vars, handler_recv>>]_vars
    /\ [](running /\ handler_recv # <<>> => ENABLED Recv)
    /\ (~handler_open ~> ~running)

\* the task has ended after a rejected handshake, with a failed send behind it
C14_Witness ==
    /\ ~running
    /\ ~handler_open
    /\ handler_recv = <<>>
    /\ last.kind = "RpcRequest"
    /\ last.valid = "false"
    /\ ~network_send[1].sent
    /\ request_ids # EmptyMap

\* C15: while the task runs, a pending request does not stay pending forever.
C15_PendingEventuallyGone ==
    \A p \in PeerIds, id \in RpcIds :
        (<<p, id>> \in requests /\ running) ~> (<<p, id>> \notin requests \/ ~running)

\* C21: a Hello request step makes exactly one send, a Hello response to the
\* requester carrying the node's own generate_hello, made before validate_peer
\* is called, whether validate_peer then returns true or false; when the
\* request's network_id differs from the node's, validate_peer returns false
\* and the registry and the SyncState are as before.
C21_AlwaysAnswered ==
    [][last'.kind = "RpcRequest" /\ last'.hello =>
          /\ Len(network_send') = 1
          /\ network_send'[1].peer = last'.peer
          /\ network_send'[1].event.kind = "Response"
          /\ network_send'[1].event.hello = generate_hello
          /\ last'.calls[1] = "send_hello"
          /\ last'.calls[Len(last'.calls)] = "validate_peer"
          /\ last'.valid = "false" => UNCHANGED <<known_peers, state>>
          /\ \A h \in PeerHello(latest_slot) :
                /\ h.network_id # network_id
                /\ RpcRequest(last'.peer, last'.id, [kind |-> "Hello", hello |-> h])
                =>
                /\ last'.valid = "false"
                /\ UNCHANGED <<known_peers, state>>]_vars

\* a rejected Hello request of an unknown peer was answered with the node's
\* handshake while the node was Idle
C21_Witness ==
    /\ last.kind = "RpcRequest"
    /\ last.hello
    /\ last.valid = "false"
    /\ Len(network_send) = 1
    /\ network_send[1].peer = last.peer
    /\ network_send[1].event.kind = "Response"
    /\ network_send[1].event.hello.network_id = network_id
    /\ last.peer \notin DOMAIN known_peers
    /\ known_peers # EmptyMap
    /\ state = "Idle"

====
